---- MODULE Spec2Model ----
(***************************************************************************)
(* Model of the backend-compro administrative backend: the bearer-token    *)
(* gate (AuthMiddleware), Login/Logout with the token_blacklist table, the *)
(* user handlers (register, create, update, delete), and the content       *)
(* handlers (products, carousel, portfolio images and reviews, messages)   *)
(* with the uploaded image files and the goroutines that remove them.      *)
(*                                                                         *)
(* Every database statement of a handler is one atomic step; requests run  *)
(* on their own goroutines and interleave between statements.  The clock   *)
(* unit is twelve hours, so the 24 hour token lifetime is two ticks.       *)
(***************************************************************************)
EXTENDS Integers, Sequences, FiniteSets, TLC

\* ---------------------------------------------------------------- bounds
MaxReq == 2
MaxTime == 2
MaxIssued == 2
MaxFiles == 2
MaxUsers == 3

\* ------------------------------------------------------ program constants
TokenTTL == 2
StatusOK == 200
StatusCreated == 201
StatusNoContent == 204
StatusBadRequest == 400
StatusUnauthorized == 401
StatusForbidden == 403
StatusNotFound == 404
StatusConflict == 409
StatusInternalServerError == 500

RoleAdmin == "admin"
RoleStaff == "staff"
RoleUser == "user"

\* SQL NULL for nullable integer and timestamp columns (all real values >= 0)
NULL == 0 - 1

Req == 1 .. MaxReq

VARIABLES
    now,              \* wall clock (time.Now), in ticks
    users,            \* table users: sequence of rows, id = index
    token_blacklist,  \* table token_blacklist: set of rows
    issued,           \* tokens signed by Login with JWT_SECRET so far
    loggedOut,        \* history: tokens for which Logout answered success
    pc,               \* per request: position in middleware / handler
    route,            \* per request: the route it was sent to
    header,           \* per request: Authorization header
    target,           \* per request: the :id path parameter
    body,             \* per request: decoded body
    locals,           \* per request: fiber c.Locals (userID, userRole)
    resp,             \* per request: response written
    tables,           \* products, carousel, portfolio_review, messages_user,
                      \* portfolio_images
    files,            \* the upload directory tree: paths of the files present
    goroutines,       \* detached "go func" deletions not yet run: their paths
    frame,            \* per request: local variables of the running handler
    saved             \* number of c.SaveFile calls so far (names by UnixNano)

dbVars == <<users, token_blacklist>>
reqVars == <<pc, route, header, target, body, locals, resp>>
contentVars == <<tables, files, goroutines, frame, saved>>
vars == <<now, users, token_blacklist, issued, loggedOut,
          pc, route, header, target, body, locals, resp,
          tables, files, goroutines, frame, saved>>

\* ------------------------------------------------------------ credentials
\* A JWT is determined by its claims and by whether its HMAC matches
\* JWT_SECRET: HS256 is deterministic, equal claims give equal token strings.
Claims(uid, role, exp) == [uid |-> uid, role |-> role, exp |-> exp]

Token(uid, role, exp, sig) == [uid |-> uid, role |-> role, exp |-> exp, sig |-> sig]

NoCred == Token(0, "", 0, "none")

\* tokens an attacker can fabricate without the secret
ForgedTokens == { Token(1, RoleAdmin, MaxTime + TokenTTL, "forged") }

\* Authorization header: a scheme prefix followed by the credential text
Header(prefix, cred) == [prefix |-> prefix, cred |-> cred]

NoHeader == Header("", NoCred)

NoLocals == [userID |-> NULL, userRole |-> ""]

NoBody == [kind |-> "none"]

Response(status, msg) == [status |-> status, msg |-> msg, token |-> NoCred]

NoResp == Response(0, "")

\* ExtractToken: the text after "Bearer " when the header is longer than
\* the prefix, else the empty string
ExtractToken(h) ==
    IF h.prefix = "Bearer " /\ h.cred # NoCred THEN h.cred ELSE NoCred

\* variant: the signature is not verified
TokenValidAt_Unsigned(tok, t) == t < tok.exp

\* variant: a token is still accepted at the instant of its expiry
TokenValidAt_Inclusive(tok, t) == tok.sig = "valid" /\ t <= tok.exp

\* jwt.ParseWithClaims with the HMAC key: signature must verify and the
\* validator requires now strictly before exp
TokenValidAt(tok, t) == tok.sig = "valid" /\ t < tok.exp

validateToken(tok, t) ==
    IF TokenValidAt(tok, t)
    THEN [ok |-> TRUE, claims |-> Claims(tok.uid, tok.role, tok.exp)]
    ELSE [ok |-> FALSE, claims |-> Claims(0, "", 0)]

\* the claims Logout parsed at LogoutParse, read again at the INSERT
ParsedClaims(tok) == Claims(tok.uid, tok.role, tok.exp)

\* variant: the blacklist is never consulted
BlacklistExists_Skipped(bl, tok) == FALSE

\* SELECT EXISTS(SELECT 1 FROM token_blacklist WHERE token = $1)
BlacklistExists(bl, tok) == \E e \in bl : e.token = tok

\* variant: the principal is kept in one place shared by all requests and
\* was last written for the first administrator
SetLocals_Shared(claims) == [userID |-> 1, userRole |-> RoleAdmin]

\* variant: the role is read from the users table at the time of the request
SetLocals_FromRow(claims) == [userID |-> claims.uid, userRole |-> users[claims.uid].role]

\* c.Locals("userID", claims.UserID); c.Locals("userRole", claims.Role)
SetLocals(claims) == [userID |-> claims.uid, userRole |-> claims.role]

Protected(rt) == rt \notin {"login", "register"}

\* ----------------------------------------------------------------- tables
UserRow(name, phone, username, password, role) ==
    [name |-> name, phone |-> phone, username |-> username,
     password |-> password, role |-> role, status |-> TRUE,
     created_by |-> NULL, edited_at |-> NULL, edited_by |-> NULL,
     deleted_at |-> NULL, deleted_by |-> NULL]

\* bcrypt.GenerateFromPassword / CompareHashAndPassword: the hash is not the
\* plaintext, and it matches exactly the plaintext it was made from
Hash(pw) == <<"bcrypt", pw>>

CompareHashAndPassword(hash, pw) == hash = Hash(pw)

InitUsers ==
    << UserRow("Root", "+620000001", "root", Hash("rootpass1"), RoleAdmin),
       UserRow("Budi", "+620000002", "budi", Hash("budipass2"), RoleUser) >>

\* a row of token_blacklist; n tells apart rows that carry the same token
BlacklistRow(tok, exp, n) == [token |-> tok, expires_at |-> exp, n |-> n]

BlacklistCount(bl, tok) == Cardinality({ e \in bl : e.token = tok })

\* ------------------------------------------------------------ file paths
\* A path is the sequence of the pieces it was concatenated from: "/", "."
\* and names.  "." + p puts a "." piece in front of p, so "." in front of
\* "uploads/..." makes the first component ".uploads".
Concat(prefix, p) == IF prefix = "" THEN p ELSE <<prefix>> \o p

\* the components between the "/" pieces, each a sequence of pieces
RECURSIVE Components(_, _, _)
Components(p, cur, acc) ==
    IF p = << >> THEN Append(acc, cur)
    ELSE IF p[1] = "/" THEN Components(Tail(p), << >>, Append(acc, cur))
    ELSE Components(Tail(p), Append(cur, p[1]), acc)

\* filepath.Clean as the kernel resolves a path: empty and "." components
\* are dropped
Clean(p) ==
    SelectSeq(Components(p, << >>, << >>), LAMBDA c : c # << >> /\ c # <<".">>)

IsAbs(p) == p # << >> /\ p[1] = "/"

\* os.Getwd(): the directory the server was started in
Getwd == <<"/", "srv">>

\* the file a path names: absolute, or relative to the working directory
FsKey(p) == IF IsAbs(p) THEN Clean(p) ELSE Clean(Getwd) \o Clean(p)

\* filepath.Join(dir, name)
Join(dir, name) == dir \o <<"/", name>>

\* c.SaveFile(file, path) and os.Remove(path) on the set of files present;
\* removing a path that names no file is an error the callers drop
SaveFile(fs, p) == fs \cup {FsKey(p)}

Remove(fs, p) == fs \ {FsKey(p)}

\* fmt.Sprintf("%d-%s%s", time.Now().UnixNano(), ...): the n-th file name
Filename(n) == <<"n1", "n2", "n3", "n4", "n5", "n6", "n7", "n8">>[n]

\* the string literals of the handlers, piece by piece
ProductsUploadDir == <<".", "/", "uploads", "/", "products">>

ProductsRef(name) == <<"/", "uploads", "/", "products", "/", name>>

CarouselUploadDir == <<"uploads", "/", "carousel", "/">>

CarouselRef(name) == <<"uploads", "/", "carousel", "/", name>>

ReviewsUploadDir == Join(Getwd, "uploads") \o <<"/", "portfolio", "/", "reviews">>

ReviewsRef(name) == <<"uploads", "/", "portfolio", "/", "reviews", "/", name>>

ImagesUploadDir == <<"uploads", "/", "portfolio", "/", "images">>

ImagesRef(name) == <<"uploads", "/", "portfolio", "/", "images", "/", name>>

\* --------------------------------------------------------- SQL expressions
\* COALESCE(NULLIF($n, zero), column)
CoalesceNullIf(arg, zero, column) == IF arg = zero THEN column ELSE arg

\* COALESCE($n, column) for a pointer argument: << >> is nil and is sent as
\* NULL, <<v>> is sent as v
CoalescePtr(arg, column) == IF arg = << >> THEN column ELSE arg[1]

\* COALESCE($n, column) for an argument passed by value
Coalesce(arg, column) == IF arg = NULL THEN column ELSE arg

\* time.Time{}: the zero time, sent as the timestamp 0001-01-01, not NULL
ZeroTime == 0

\* decimal.Zero
DecimalZero == 0

\* ----------------------------------------------------------- content rows
Product(image, title, price, status) ==
    [image |-> image, title |-> title, price |-> price, status |-> status,
     edited_at |-> NULL, edited_by |-> NULL, deleted_at |-> NULL, deleted_by |-> NULL]

Carousel(image, title, status) ==
    [image |-> image, title |-> title, status |-> status,
     edited_at |-> NULL, edited_by |-> NULL, deleted_at |-> NULL, deleted_by |-> NULL]

PortfolioReview(id_product, title, image, date) ==
    [id_product |-> id_product, title |-> title, image |-> image, date |-> date,
     edited_at |-> NULL, edited_by |-> NULL, deleted_at |-> NULL, deleted_by |-> NULL]

PortfolioImage(image) ==
    [image |-> image,
     edited_at |-> NULL, edited_by |-> NULL, deleted_at |-> NULL, deleted_by |-> NULL]

Message(name, id_product) ==
    [name |-> name, id_product |-> id_product,
     edited_at |-> NULL, deleted_at |-> NULL, deleted_by |-> NULL]

NoFrame == [existingImage |-> << >>, newImagePath |-> << >>]

\* one row in every table, each image row with its file on disk
InitTables ==
    [products |-> << Product(ProductsRef("p1"), "Lamp", 15000, TRUE) >>,
     carousel |-> << Carousel(CarouselRef("c1"), "Home", TRUE) >>,
     portfolio_review |-> << PortfolioReview(1, "Nice", ReviewsRef("r1"), 5) >>,
     messages_user |-> << Message("Ann", 1) >>,
     portfolio_images |-> << PortfolioImage(ImagesRef("i1")) >>]

InitFiles ==
    { FsKey(Join(ProductsUploadDir, "p1")),
      FsKey(Join(CarouselUploadDir, "c1")),
      FsKey(Join(ReviewsUploadDir, "r1")),
      FsKey(Join(ImagesUploadDir, "i1")) }

InitContent ==
    /\ tables = InitTables
    /\ files = InitFiles
    /\ goroutines = {}
    /\ frame = [r \in Req |-> NoFrame]
    /\ saved = 0

\* ------------------------------------------------------------------- Init
Init ==
    /\ now = 0
    /\ users = InitUsers
    /\ token_blacklist = {}
    /\ issued = {}
    /\ loggedOut = {}
    /\ pc = [r \in Req |-> "idle"]
    /\ route = [r \in Req |-> "none"]
    /\ header = [r \in Req |-> NoHeader]
    /\ target = [r \in Req |-> 0]
    /\ body = [r \in Req |-> NoBody]
    /\ locals = [r \in Req |-> NoLocals]
    /\ resp = [r \in Req |-> NoResp]
    /\ InitContent

\* ------------------------------------------------------- request plumbing
\* the response is written and the handler chain returns
Reply(r, status, msg) ==
    /\ pc' = [pc EXCEPT ![r] = "done"]
    /\ resp' = [resp EXCEPT ![r] = Response(status, msg)]

\* A connection delivers a request: fiber hands the handler chain a context
\* with the request's route, header, parameters and body and empty Locals.
Accept(r, rt, h, tgt, b) ==
    /\ pc[r] \in {"idle", "done"}
    /\ route' = [route EXCEPT ![r] = rt]
    /\ header' = [header EXCEPT ![r] = h]
    /\ target' = [target EXCEPT ![r] = tgt]
    /\ body' = [body EXCEPT ![r] = b]

\* ---------------------------------------------------------- AuthMiddleware
\* variant: an expired or badly signed token is answered 403 Forbidden
AuthDecision_Leaky(h, t, bl, dbOk) ==
    IF h = NoHeader
    THEN [next |-> FALSE, status |-> StatusUnauthorized,
          msg |-> "Authorization header required", locals |-> NoLocals]
    ELSE IF ExtractToken(h) = NoCred
    THEN [next |-> FALSE, status |-> StatusUnauthorized,
          msg |-> "Invalid token format", locals |-> NoLocals]
    ELSE IF ~validateToken(ExtractToken(h), t).ok
    THEN [next |-> FALSE, status |-> StatusForbidden,
          msg |-> "Invalid token", locals |-> NoLocals]
    ELSE IF ~dbOk
    THEN [next |-> FALSE, status |-> StatusInternalServerError,
          msg |-> "Failed to check token status", locals |-> NoLocals]
    ELSE IF BlacklistExists(bl, ExtractToken(h))
    THEN [next |-> FALSE, status |-> StatusUnauthorized,
          msg |-> "Token revoked", locals |-> NoLocals]
    ELSE [next |-> TRUE, status |-> 0, msg |-> "",
          locals |-> SetLocals(validateToken(ExtractToken(h), t).claims)]

\* The decision of the gate for header h at time t against blacklist bl;
\* dbOk = FALSE is a failed blacklist query.
AuthDecision(h, t, bl, dbOk) ==
    IF h = NoHeader
    THEN [next |-> FALSE, status |-> StatusUnauthorized,
          msg |-> "Authorization header required", locals |-> NoLocals]
    ELSE IF ExtractToken(h) = NoCred
    THEN [next |-> FALSE, status |-> StatusUnauthorized,
          msg |-> "Invalid token format", locals |-> NoLocals]
    ELSE IF ~validateToken(ExtractToken(h), t).ok
    THEN [next |-> FALSE, status |-> StatusUnauthorized,
          msg |-> "Invalid token", locals |-> NoLocals]
    ELSE IF ~dbOk
    THEN [next |-> FALSE, status |-> StatusInternalServerError,
          msg |-> "Failed to check token status", locals |-> NoLocals]
    ELSE IF BlacklistExists(bl, ExtractToken(h))
    THEN [next |-> FALSE, status |-> StatusUnauthorized,
          msg |-> "Token revoked", locals |-> NoLocals]
    ELSE [next |-> TRUE, status |-> 0, msg |-> "",
          locals |-> SetLocals(validateToken(ExtractToken(h), t).claims)]

\* a request to a route of the protected group arrives and runs the gate
AuthMiddleware(r, rt, h, tgt, b, dbOk) ==
    /\ Protected(rt)
    /\ Accept(r, rt, h, tgt, b)
    /\ LET d == AuthDecision(h, now, token_blacklist, dbOk) IN
         /\ locals' = [locals EXCEPT ![r] = d.locals]
         /\ IF d.next
            THEN /\ pc' = [pc EXCEPT ![r] = "handler"]
                 /\ resp' = [resp EXCEPT ![r] = NoResp]
            ELSE Reply(r, d.status, d.msg)
    /\ UNCHANGED <<now, dbVars, issued, loggedOut>>
    /\ UNCHANGED contentVars

\* ------------------------------------------------------------------ Login
\* variant: the lookup has no deleted_at predicate
LoginCandidates_AnyRow(us, username) ==
    { i \in 1 .. Len(us) : us[i].username = username }

\* SELECT id, password, role FROM users WHERE username = $1 AND deleted_at IS NULL
LoginCandidates(us, username) ==
    { i \in 1 .. Len(us) : us[i].username = username /\ us[i].deleted_at = NULL }

Login(r, b, dbOk) ==
    /\ Accept(r, "login", NoHeader, 0, b)
    /\ locals' = [locals EXCEPT ![r] = NoLocals]
    /\ LET cands == LoginCandidates(users, b.username) IN
         IF ~dbOk \/ cands = {}
         THEN /\ Reply(r, StatusUnauthorized, "Invalid username or password")
              /\ UNCHANGED issued
         ELSE LET id == CHOOSE i \in cands : \A j \in cands : i <= j
                  tok == Token(id, users[id].role, now + TokenTTL, "valid")
              IN IF ~CompareHashAndPassword(users[id].password, b.password)
                 THEN /\ Reply(r, StatusUnauthorized, "Invalid username or password")
                      /\ UNCHANGED issued
                 ELSE /\ tok \in issued \/ Cardinality(issued) < MaxIssued
                      /\ issued' = issued \cup {tok}
                      /\ pc' = [pc EXCEPT ![r] = "done"]
                      /\ resp' = [resp EXCEPT ![r] =
                                    [status |-> StatusOK, msg |-> "token", token |-> tok]]
    /\ UNCHANGED <<now, dbVars, loggedOut>>
    /\ UNCHANGED contentVars

\* ----------------------------------------------------------------- Logout
\* first half: ExtractToken and jwt.ParseWithClaims on the header again
LogoutParse(r) ==
    /\ pc[r] = "handler"
    /\ route[r] = "logout"
    /\ IF ExtractToken(header[r]) = NoCred
       THEN Reply(r, StatusUnauthorized, "No token provided")
       ELSE IF ~validateToken(ExtractToken(header[r]), now).ok
       THEN Reply(r, StatusUnauthorized, "Invalid token")
       ELSE /\ pc' = [pc EXCEPT ![r] = "insert"]
            /\ UNCHANGED resp
    /\ UNCHANGED <<now, dbVars, issued, loggedOut, route, header, target, body, locals>>
    /\ UNCHANGED contentVars

\* INSERT INTO token_blacklist (token, expires_at) VALUES ($1, $2)
\* A plain INSERT.  The table's schema is not part of the repository: with a
\* unique index on token a second row for the token is refused, without one
\* it is stored next to the first.
BlacklistInsert(bl, unique, tok, exp) ==
    IF unique /\ BlacklistExists(bl, tok)
    THEN [err |-> TRUE, rows |-> bl]
    ELSE [err |-> FALSE,
          rows |-> bl \cup {BlacklistRow(tok, exp, BlacklistCount(bl, tok))}]

LogoutInsert(r, unique, dbOk) ==
    /\ pc[r] = "insert"
    /\ LET tok == ExtractToken(header[r])
           claims == ParsedClaims(tok)
           ins == BlacklistInsert(token_blacklist, unique, tok, claims.exp)
       IN IF ~dbOk \/ ins.err
          THEN /\ Reply(r, StatusInternalServerError, "Failed to logout")
               /\ UNCHANGED <<token_blacklist, loggedOut>>
          ELSE /\ token_blacklist' = ins.rows
               /\ loggedOut' = loggedOut \cup {tok}
               /\ Reply(r, StatusOK, "Successfully logged out")
    /\ UNCHANGED <<now, users, issued, route, header, target, body, locals>>
    /\ UNCHANGED contentVars

\* ------------------------------------------------------------- DeleteUser
\* UPDATE users SET deleted_at = $1, deleted_by = $2
\*  WHERE id = $3 AND deleted_at IS NULL
SoftDeleteUser(us, t, by, id) ==
    [i \in 1 .. Len(us) |->
        IF i = id /\ us[i].deleted_at = NULL
        THEN [us[i] EXCEPT !.deleted_at = t, !.deleted_by = by]
        ELSE us[i]]

\* variant: the role check is left out
AdminRequired_Unchecked(adminRole) == FALSE

\* adminRole != models.RoleAdmin
AdminRequired(adminRole) == adminRole # RoleAdmin

DeleteUser(r, dbOk) ==
    /\ pc[r] = "handler"
    /\ route[r] = "deleteUser"
    /\ LET adminID == locals[r].userID
           adminRole == locals[r].userRole
           after == SoftDeleteUser(users, now, adminID, target[r])
       IN IF AdminRequired(adminRole)
          THEN /\ Reply(r, StatusForbidden, "Admin access required")
               /\ UNCHANGED users
          ELSE IF target[r] = adminID
          THEN /\ Reply(r, StatusForbidden, "Admin cannot delete their own account")
               /\ UNCHANGED users
          ELSE IF ~dbOk
          THEN /\ Reply(r, StatusInternalServerError, "Failed to delete user")
               /\ UNCHANGED users
          ELSE IF after = users
          THEN /\ Reply(r, StatusNotFound, "User not found or already deleted")
               /\ UNCHANGED users
          ELSE /\ users' = after
               /\ Reply(r, StatusOK, "User deleted successfully")
    /\ UNCHANGED <<now, token_blacklist, issued, loggedOut,
                   route, header, target, body, locals>>
    /\ UNCHANGED contentVars

\* ------------------------------------------------------------- UpdateUser
\* models.UpdateRequest; Status is a pointer: << >> is nil, <<v>> points to v
UpdateRequest(name, phone, username, password, role, status) ==
    [name |-> name, phone |-> phone, username |-> username,
     password |-> password, role |-> role, status |-> status]

\* strings.HasPrefix(phone, "+") over the phone literals of the model
HasPlusPrefix(phone) == phone \in {"+620000001", "+620000002", "+620000003"}

isValidPhone(phone) == HasPlusPrefix(phone) /\ Len(phone) > 8

\* unicode.IsLetter / IsNumber on every rune, over the literals of the model
isAlphanumeric(s) == s \notin {"bu di", "root!"}

\* TRUE when the request passes (the handler's map of errors is empty)
validateUpdateRequest(req) ==
    /\ ~(req.name # "" /\ Len(req.name) < 3)
    /\ ~(req.phone # "" /\ ~isValidPhone(req.phone))
    /\ ~(req.username # "" /\ ~isAlphanumeric(req.username))
    /\ ~(req.password # "" /\ Len(req.password) < 8)

\* variant: role and status are written for every requester
buildUpdateQuery_AnyRole(req, hashedPassword, editedBy, targetID, requestRole) ==
    [set |-> (IF req.name # "" THEN {<<"name", req.name>>} ELSE {})
             \cup (IF req.phone # "" THEN {<<"phone", req.phone>>} ELSE {})
             \cup (IF req.username # "" THEN {<<"username", req.username>>} ELSE {})
             \cup (IF hashedPassword # "" THEN {<<"password", hashedPassword>>} ELSE {})
             \cup (IF req.role # "" THEN {<<"role", req.role>>} ELSE {})
             \cup (IF req.status # << >> THEN {<<"status", req.status[1]>>} ELSE {})
             \cup {<<"edited_by", editedBy>>},
     id |-> targetID]

\* buildUpdateQuery: "UPDATE users SET <set> WHERE id = <id>"; the SET list
\* is a set of <<column, value>> pairs, one per column
buildUpdateQuery(req, hashedPassword, editedBy, targetID, requestRole) ==
    [set |-> (IF req.name # "" THEN {<<"name", req.name>>} ELSE {})
             \cup (IF req.phone # "" THEN {<<"phone", req.phone>>} ELSE {})
             \cup (IF req.username # "" THEN {<<"username", req.username>>} ELSE {})
             \cup (IF hashedPassword # "" THEN {<<"password", hashedPassword>>} ELSE {})
             \cup (IF req.role # "" /\ requestRole = RoleAdmin
                   THEN {<<"role", req.role>>} ELSE {})
             \cup (IF req.status # << >> /\ requestRole = RoleAdmin
                   THEN {<<"status", req.status[1]>>} ELSE {})
             \cup {<<"edited_by", editedBy>>},
     id |-> targetID]

\* one row after "SET <set>"
ApplySet(row, set) ==
    [c \in DOMAIN row |->
        IF \E p \in set : p[1] = c
        THEN (CHOOSE p \in set : p[1] = c)[2]
        ELSE row[c]]

\* the unique indexes behind "Username or phone number already exists"
UniqueViolation(us, id, row) ==
    \E j \in 1 .. Len(us) :
        j # id /\ (us[j].username = row.username \/ us[j].phone = row.phone)

\* err.Error() as the sequence of its bytes.  A pgconn.PgError prints as
\* "SEVERITY: message (SQLSTATE code)"; other failures print their own text.
NoError == << >>

UniqueViolationError ==
    <<"E", "R", "R", "O", "R", ":", " ", "d", "u", "p", "l", "i", "c", "a", "t", "e", " ", "k", "e", "y", " ", "(", "S", "Q", "L", "S", "T", "A", "T", "E", " ", "2", "3", "5", "0", "5", ")">>

ConnectionError ==
    <<"c", "o", "n", "t", "e", "x", "t", " ", "d", "e", "a", "d", "l", "i", "n", "e", " ", "e", "x", "c", "e", "e", "d", "e", "d">>

\* h.db.Exec(query, args...): err, RowsAffected and the table afterwards
ExecUpdateUser(us, q, dbOk) ==
    IF ~dbOk
    THEN [err |-> ConnectionError, rows |-> 0, users |-> us]
    ELSE IF q.id \notin 1 .. Len(us)
    THEN [err |-> NoError, rows |-> 0, users |-> us]
    ELSE IF UniqueViolation(us, q.id, ApplySet(us[q.id], q.set))
    THEN [err |-> UniqueViolationError, rows |-> 0, users |-> us]
    ELSE [err |-> NoError, rows |-> 1,
          users |-> [us EXCEPT ![q.id] = ApplySet(us[q.id], q.set)]]

\* the Go slice s[lo:hi]: bytes lo .. hi-1, counted from 0
Slice(s, lo, hi) == SubSeq(s, lo + 1, hi)

\* err.Error()[0:5] == "ERROR" && err.Error()[6:10] == "23505"
isUniqueConstraintViolation(err) ==
    /\ Slice(err, 0, 5) = <<"E", "R", "R", "O", "R">>
    /\ Slice(err, 6, 10) = <<"2", "3", "5", "0", "5">>

\* variant: the ownership check is left out
NotOwnProfile_Unchecked(requesterRole, requesterID, targetID) == FALSE

\* requesterRole != models.RoleAdmin && requesterID != targetID
NotOwnProfile(requesterRole, requesterID, targetID) ==
    requesterRole # RoleAdmin /\ requesterID # targetID

UpdateUser(r, dbOk) ==
    /\ pc[r] = "handler"
    /\ route[r] = "updateUser"
    /\ LET targetID == target[r]
           requesterID == locals[r].userID
           requesterRole == locals[r].userRole
           req == body[r]
           hashedPassword == IF req.password # "" THEN Hash(req.password) ELSE ""
           q == buildUpdateQuery(req, hashedPassword, requesterID, targetID, requesterRole)
           result == ExecUpdateUser(users, q, dbOk)
       IN IF NotOwnProfile(requesterRole, requesterID, targetID)
          THEN /\ Reply(r, StatusForbidden, "You can only update your own profile")
               /\ UNCHANGED users
          ELSE IF ~validateUpdateRequest(req)
          THEN /\ Reply(r, StatusBadRequest, "errors")
               /\ UNCHANGED users
          ELSE IF result.err # NoError
          THEN /\ IF isUniqueConstraintViolation(result.err)
                  THEN Reply(r, StatusConflict, "Username or phone number already exists")
                  ELSE Reply(r, StatusInternalServerError, "Failed to update user")
               /\ UNCHANGED users
          ELSE IF result.rows = 0
          THEN /\ Reply(r, StatusNotFound, "User not found")
               /\ UNCHANGED users
          ELSE /\ users' = result.users
               /\ Reply(r, StatusOK, "User updated successfully")
    /\ UNCHANGED <<now, token_blacklist, issued, loggedOut,
                   route, header, target, body, locals>>
    /\ UNCHANGED contentVars

\* ------------------------------------------------------------- CreateUser
\* models.CreateRequest
CreateRequest(name, phone, username, password, role) ==
    [name |-> name, phone |-> phone, username |-> username,
     password |-> password, role |-> role]

\* TRUE when the request passes (validateUserInput returns nil)
validateUserInput(req) ==
    /\ ~(Len(req.name) < 3)
    /\ req.phone # ""
    /\ req.username # ""
    /\ ~(Len(req.password) < 8)

\* INSERT INTO users (...) VALUES (...) RETURNING id: err and the table
\* afterwards; the new row gets the next id
InsertUser(us, row, dbOk) ==
    IF ~dbOk
    THEN [err |-> ConnectionError, users |-> us]
    ELSE IF UniqueViolation(us, 0, row)
    THEN [err |-> UniqueViolationError, users |-> us]
    ELSE [err |-> NoError, users |-> Append(us, row)]

CreateUser(r, dbOk) ==
    /\ pc[r] = "handler"
    /\ route[r] = "createUser"
    /\ LET createdBy == locals[r].userID
           req == body[r]
           role == IF req.role = "" THEN RoleUser ELSE req.role
           row == [UserRow(req.name, req.phone, req.username,
                           Hash(req.password), role)
                     EXCEPT !.created_by = createdBy]
           result == InsertUser(users, row, dbOk)
       IN IF ~validateUserInput(req)
          THEN /\ Reply(r, StatusBadRequest, "errors")
               /\ UNCHANGED users
          ELSE IF result.err # NoError
          THEN /\ IF isUniqueConstraintViolation(result.err)
                  THEN Reply(r, StatusConflict, "Username or phone number already exists")
                  ELSE Reply(r, StatusInternalServerError, "Failed to create user")
               /\ UNCHANGED users
          ELSE /\ Len(users) < MaxUsers
               /\ users' = result.users
               /\ Reply(r, StatusCreated, "User created successfully")
    /\ UNCHANGED <<now, token_blacklist, issued, loggedOut,
                   route, header, target, body, locals>>
    /\ UNCHANGED contentVars

\* ----------------------------------------------------------- RegisterUser
\* models.RegisterRequest
RegisterRequest(name, phone, username, password, role) ==
    [name |-> name, phone |-> phone, username |-> username,
     password |-> password, role |-> role]

\* strconv.Atoi(phone) succeeds, over the phone literals of the model
AtoiOk(phone) == phone \in {"62811000003", "+620000001", "+620000002"}

\* ^[a-zA-Z0-9_]+$, over the username literals of the model
MatchUsername(username) == username \notin {"mal lory"}

\* [A-Z], [a-z] and [0-9] each match, over the password literals of the model
hasUpperLowerNumber(password) == password \in {"Secret123"}

\* TRUE when the request passes (validateRegistrationInput returns nil)
validateRegistrationInput(req) ==
    /\ req.name # "" /\ Len(req.name) >= 3 /\ Len(req.name) <= 100
    /\ req.phone # "" /\ AtoiOk(req.phone)
    /\ Len(req.phone) >= 10 /\ Len(req.phone) <= 15
    /\ req.username # "" /\ Len(req.username) >= 5 /\ Len(req.username) <= 50
    /\ MatchUsername(req.username)
    /\ req.password # "" /\ Len(req.password) >= 8 /\ Len(req.password) <= 72
    /\ hasUpperLowerNumber(req.password)

\* POST /register, outside the protected group
RegisterUser(r, b, dbOk) ==
    /\ Accept(r, "register", NoHeader, 0, b)
    /\ locals' = [locals EXCEPT ![r] = NoLocals]
    /\ LET role == IF b.role = "" THEN RoleAdmin ELSE b.role
           row == UserRow(b.name, b.phone, b.username, Hash(b.password), role)
           result == InsertUser(users, row, dbOk)
       IN IF ~validateRegistrationInput(b)
          THEN /\ Reply(r, StatusBadRequest, "Validasi gagal")
               /\ UNCHANGED users
          ELSE IF result.err # NoError
          THEN /\ IF isUniqueConstraintViolation(result.err)
                  THEN Reply(r, StatusConflict, "Username or phone number already exists")
                  ELSE Reply(r, StatusInternalServerError, "Failed to create user")
               /\ UNCHANGED users
          ELSE /\ Len(users) < MaxUsers
               /\ users' = result.users
               /\ Reply(r, StatusCreated, "User registered successfully")
    /\ UNCHANGED <<now, token_blacklist, issued, loggedOut>>
    /\ UNCHANGED contentVars

\* ------------------------------------------------------------------ clock
Tick ==
    /\ now < MaxTime
    /\ now' = now + 1
    /\ UNCHANGED <<dbVars, issued, loggedOut, reqVars>>
    /\ UNCHANGED contentVars

\* --------------------------------------------------------- content helpers
\* allowedTypes of the upload handlers, by extension
AllowedTypes == {".jpg", ".jpeg", ".png", ".webp"}

\* decimal.NewFromString over the literals of the model, in hundredths
ParseDecimal(s) ==
    IF s = "250.00" THEN [ok |-> TRUE, value |-> 25000]
    ELSE IF s = "-1.00" THEN [ok |-> TRUE, value |-> 0 - 100]
    ELSE [ok |-> FALSE, value |-> DecimalZero]

\* time.Parse("2006-01-02", s) over the literals of the model, in days
ParseDate(s) ==
    IF s = "2024-01-09" THEN [ok |-> TRUE, value |-> 9]
    ELSE [ok |-> FALSE, value |-> ZeroTime]

\* strconv.ParseBool over the literals of the model
ParseBool(s) ==
    IF s = "true" THEN [ok |-> TRUE, value |-> TRUE]
    ELSE IF s = "false" THEN [ok |-> TRUE, value |-> FALSE]
    ELSE [ok |-> FALSE, value |-> FALSE]

\* SELECT ... FROM <table> WHERE id = $1 AND deleted_at IS NULL finds a row
Live(table, id) == id \in 1 .. Len(table) /\ table[id].deleted_at = NULL

\* UPDATE <table> SET deleted_at = $1, deleted_by = $2 WHERE id = $3
MarkDeleted(table, t, by, id) ==
    [i \in 1 .. Len(table) |->
        IF i = id THEN [table[i] EXCEPT !.deleted_at = t, !.deleted_by = by]
        ELSE table[i]]

\* variant: the soft delete has no deleted_at predicate
MarkDeletedIfLive_Always(table, t, by, id) == MarkDeleted(table, t, by, id)

\* ... WHERE id = $3 AND deleted_at IS NULL
MarkDeletedIfLive(table, t, by, id) ==
    IF Live(table, id) THEN MarkDeleted(table, t, by, id) ELSE table

\* go func(path) { os.Remove(path) }(): nothing to run for the empty string
Go(image, path) == IF image = << >> THEN {} ELSE {path}

\* what a handler leaves alone besides the content it works on
Untouched == <<now, dbVars, issued, loggedOut, route, header, target, body, locals>>

\* models.ProductUpdateRequest and the "image" form file (its extension)
ProductUpdateRequest(title, price, status, file) ==
    [title |-> title, price |-> price, status |-> status, file |-> file]

\* the form of UpdateCarousel: title, status text and the "image" form file
CarouselUpdateRequest(title, status, file) ==
    [title |-> title, status |-> status, file |-> file]

\* models.PortfolioReviewUpdateRequest and the "image" form file
PortfolioReviewUpdateRequest(product_id, title, date, file) ==
    [product_id |-> product_id, title |-> title, date |-> date, file |-> file]

\* ----------------------------------------------------------- UpdateProduct
\* existence check, upload of the new image, start of the goroutine that
\* removes the old image, conversion of the price
UpdateProductSelect(r, dbOk) ==
    /\ pc[r] = "handler"
    /\ route[r] = "updateProduct"
    /\ LET id == target[r]
           req == body[r]
           existingImage == tables.products[id].image
           filename == Filename(saved + 1)
           filePath == Join(ProductsUploadDir, filename)
           price == ParseDecimal(req.price)
       IN IF ~dbOk \/ ~Live(tables.products, id)
          THEN /\ Reply(r, StatusNotFound, "Product not found")
               /\ UNCHANGED <<files, goroutines, frame, saved>>
          ELSE IF req.file # "" /\ req.file \notin AllowedTypes
          THEN /\ Reply(r, StatusBadRequest, "Invalid file type. Allowed: JPG, JPEG, PNG, WEBP")
               /\ UNCHANGED <<files, goroutines, frame, saved>>
          ELSE /\ IF req.file # ""
                  THEN /\ saved < MaxFiles
                       /\ saved' = saved + 1
                       /\ files' = SaveFile(files, filePath)
                       /\ goroutines' = goroutines \cup
                                           Go(existingImage, Concat(".", existingImage))
                       /\ frame' = [frame EXCEPT ![r] =
                                      [existingImage |-> existingImage,
                                       newImagePath |-> ProductsRef(filename)]]
                  ELSE /\ frame' = [frame EXCEPT ![r] =
                                      [existingImage |-> existingImage,
                                       newImagePath |-> << >>]]
                       /\ UNCHANGED <<files, goroutines, saved>>
               /\ IF req.price # "" /\ ~price.ok
                  THEN Reply(r, StatusBadRequest, "Invalid price format")
                  ELSE IF req.price # "" /\ price.value < DecimalZero
                  THEN Reply(r, StatusBadRequest, "Price cannot be negative")
                  ELSE /\ pc' = [pc EXCEPT ![r] = "exec"]
                       /\ UNCHANGED resp
    /\ UNCHANGED <<Untouched, tables>>

\* UPDATE products SET ... WHERE id = $8 RETURNING *
UpdateProductRow(row, newImagePath, req, price, userID) ==
    [row EXCEPT !.image = CoalesceNullIf(newImagePath, << >>, row.image),
                !.title = CoalesceNullIf(req.title, "", row.title),
                !.price = CoalesceNullIf(price, DecimalZero, row.price),
                !.status = CoalescePtr(req.status, row.status),
                !.edited_by = userID]

UpdateProductExec(r, dbOk) ==
    /\ pc[r] = "exec"
    /\ route[r] = "updateProduct"
    /\ LET id == target[r]
           req == body[r]
           newImagePath == frame[r].newImagePath
           price == IF req.price # "" THEN ParseDecimal(req.price).value ELSE DecimalZero
       IN IF ~dbOk \/ id \notin 1 .. Len(tables.products)
          THEN /\ files' = IF newImagePath # << >>
                           THEN Remove(files, Concat(".", newImagePath))
                           ELSE files
               /\ Reply(r, StatusInternalServerError, "Failed to update product")
               /\ UNCHANGED tables
          ELSE /\ tables' = [tables EXCEPT !.products[id] =
                               UpdateProductRow(@, newImagePath, req, price, locals[r].userID)]
               /\ Reply(r, StatusOK, "product")
               /\ UNCHANGED files
    /\ UNCHANGED <<Untouched, goroutines, frame, saved>>

\* ----------------------------------------------------------- DeleteProduct
DeleteProductSelect(r, dbOk) ==
    /\ pc[r] = "handler"
    /\ route[r] = "deleteProduct"
    /\ IF locals[r].userRole # RoleAdmin
       THEN /\ Reply(r, StatusForbidden, "Admin access required")
            /\ UNCHANGED frame
       ELSE IF ~dbOk \/ ~Live(tables.products, target[r])
       THEN /\ Reply(r, StatusNotFound, "Product not found or already deleted")
            /\ UNCHANGED frame
       ELSE /\ pc' = [pc EXCEPT ![r] = "exec"]
            /\ frame' = [frame EXCEPT ![r] =
                           [existingImage |-> tables.products[target[r]].image,
                            newImagePath |-> << >>]]
            /\ UNCHANGED resp
    /\ UNCHANGED <<Untouched, tables, files, goroutines, saved>>

DeleteProductExec(r, dbOk) ==
    /\ pc[r] = "exec"
    /\ route[r] = "deleteProduct"
    /\ LET id == target[r]
           imagePath == frame[r].existingImage
       IN IF ~dbOk
          THEN /\ Reply(r, StatusInternalServerError, "Failed to delete product")
               /\ UNCHANGED <<tables, goroutines>>
          ELSE IF id \notin 1 .. Len(tables.products)
          THEN /\ Reply(r, StatusNotFound, "Product not found")
               /\ UNCHANGED <<tables, goroutines>>
          ELSE /\ tables' = [tables EXCEPT !.products =
                               MarkDeleted(@, now, locals[r].userID, id)]
               /\ goroutines' = goroutines \cup Go(imagePath, Concat(".", imagePath))
               /\ Reply(r, StatusOK, "Product deleted successfully")
    /\ UNCHANGED <<Untouched, files, frame, saved>>

\* ---------------------------------------------------------- UpdateCarousel
UpdateCarouselSelect(r, dbOk) ==
    /\ pc[r] = "handler"
    /\ route[r] = "updateCarousel"
    /\ LET id == target[r]
           req == body[r]
           existingImage == tables.carousel[id].image
           filename == Filename(saved + 1)
           filePath == Join(CarouselUploadDir, filename)
       IN IF ~dbOk \/ ~Live(tables.carousel, id)
          THEN /\ Reply(r, StatusNotFound, "Carousel not found")
               /\ UNCHANGED <<files, goroutines, frame, saved>>
          ELSE IF req.status # "" /\ ~ParseBool(req.status).ok
          THEN /\ Reply(r, StatusBadRequest, "Invalid status value")
               /\ UNCHANGED <<files, goroutines, frame, saved>>
          ELSE /\ pc' = [pc EXCEPT ![r] = "exec"]
               /\ UNCHANGED resp
               /\ IF req.file # ""
                  THEN /\ saved < MaxFiles
                       /\ saved' = saved + 1
                       /\ files' = SaveFile(files, filePath)
                       /\ goroutines' = goroutines \cup
                                           Go(existingImage, Concat(".", existingImage))
                       /\ frame' = [frame EXCEPT ![r] =
                                      [existingImage |-> existingImage,
                                       newImagePath |-> CarouselRef(filename)]]
                  ELSE /\ frame' = [frame EXCEPT ![r] =
                                      [existingImage |-> existingImage,
                                       newImagePath |-> << >>]]
                       /\ UNCHANGED <<files, goroutines, saved>>
    /\ UNCHANGED <<Untouched, tables>>

\* UPDATE carousel SET ... WHERE id = $6 RETURNING *
UpdateCarouselRow(row, newImagePath, req, userID) ==
    [row EXCEPT !.image = CoalesceNullIf(newImagePath, << >>, row.image),
                !.title = CoalesceNullIf(req.title, "", row.title),
                !.status = CoalescePtr(IF req.status # ""
                                       THEN <<ParseBool(req.status).value>>
                                       ELSE << >>, row.status),
                !.edited_by = userID]

UpdateCarouselExec(r, dbOk) ==
    /\ pc[r] = "exec"
    /\ route[r] = "updateCarousel"
    /\ LET id == target[r]
           newImagePath == frame[r].newImagePath
       IN IF ~dbOk \/ id \notin 1 .. Len(tables.carousel)
          THEN /\ files' = IF newImagePath # << >>
                           THEN Remove(files, Concat(".", newImagePath))
                           ELSE files
               /\ Reply(r, StatusInternalServerError, "Failed to update carousel")
               /\ UNCHANGED tables
          ELSE /\ tables' = [tables EXCEPT !.carousel[id] =
                               UpdateCarouselRow(@, newImagePath, body[r], locals[r].userID)]
               /\ Reply(r, StatusOK, "carousel")
               /\ UNCHANGED files
    /\ UNCHANGED <<Untouched, goroutines, frame, saved>>

\* ---------------------------------------------------------- DeleteCarousel
DeleteCarouselSelect(r, dbOk) ==
    /\ pc[r] = "handler"
    /\ route[r] = "deleteCarousel"
    /\ IF locals[r].userRole # RoleAdmin
       THEN /\ Reply(r, StatusForbidden, "Admin access required")
            /\ UNCHANGED frame
       ELSE IF ~dbOk \/ ~Live(tables.carousel, target[r])
       THEN /\ Reply(r, StatusNotFound, "Carousel not found or already deleted")
            /\ UNCHANGED frame
       ELSE /\ pc' = [pc EXCEPT ![r] = "exec"]
            /\ frame' = [frame EXCEPT ![r] =
                           [existingImage |-> tables.carousel[target[r]].image,
                            newImagePath |-> << >>]]
            /\ UNCHANGED resp
    /\ UNCHANGED <<Untouched, tables, files, goroutines, saved>>

DeleteCarouselExec(r, dbOk) ==
    /\ pc[r] = "exec"
    /\ route[r] = "deleteCarousel"
    /\ LET id == target[r]
           imagePath == frame[r].existingImage
       IN IF ~dbOk
          THEN /\ Reply(r, StatusInternalServerError, "Failed to delete carousel")
               /\ UNCHANGED <<tables, goroutines>>
          ELSE IF id \notin 1 .. Len(tables.carousel)
          THEN /\ Reply(r, StatusNotFound, "Carousel not found")
               /\ UNCHANGED <<tables, goroutines>>
          ELSE /\ tables' = [tables EXCEPT !.carousel =
                               MarkDeleted(@, now, locals[r].userID, id)]
               /\ goroutines' = goroutines \cup Go(imagePath, imagePath)
               /\ Reply(r, StatusOK, "Carousel deleted successfully")
    /\ UNCHANGED <<Untouched, files, frame, saved>>

\* --------------------------------------------------- UpdatePortfolioReview
UpdatePortfolioReviewSelect(r, dbOk) ==
    /\ pc[r] = "handler"
    /\ route[r] = "updatePortfolioReview"
    /\ LET id == target[r]
           req == body[r]
           existingImage == tables.portfolio_review[id].image
           filename == Filename(saved + 1)
           filePath == Join(ReviewsUploadDir, filename)
       IN IF ~dbOk \/ ~Live(tables.portfolio_review, id)
          THEN /\ Reply(r, StatusNotFound, "Portfolio review not found")
               /\ UNCHANGED <<files, goroutines, frame, saved>>
          ELSE IF req.file # "" /\ req.file \notin AllowedTypes
          THEN /\ Reply(r, StatusBadRequest, "Invalid file type. Allowed: JPG, JPEG, PNG, WEBP")
               /\ UNCHANGED <<files, goroutines, frame, saved>>
          ELSE /\ IF req.file # ""
                  THEN /\ saved < MaxFiles
                       /\ saved' = saved + 1
                       /\ files' = SaveFile(files, filePath)
                       /\ goroutines' = goroutines \cup
                                           Go(existingImage, Concat("", existingImage))
                       /\ frame' = [frame EXCEPT ![r] =
                                      [existingImage |-> existingImage,
                                       newImagePath |-> ReviewsRef(filename)]]
                  ELSE /\ frame' = [frame EXCEPT ![r] =
                                      [existingImage |-> existingImage,
                                       newImagePath |-> << >>]]
                       /\ UNCHANGED <<files, goroutines, saved>>
               /\ IF req.date # "" /\ ~ParseDate(req.date).ok
                  THEN Reply(r, StatusBadRequest, "Invalid date format. Use YYYY-MM-DD")
                  ELSE /\ pc' = [pc EXCEPT ![r] =
                                   IF req.product_id # << >> THEN "validate" ELSE "exec"]
                       /\ UNCHANGED resp
    /\ UNCHANGED <<Untouched, tables>>

\* SELECT EXISTS(SELECT 1 FROM products WHERE id = $1)
ProductExists(products, id) == id \in 1 .. Len(products)

UpdatePortfolioReviewValidate(r, dbOk) ==
    /\ pc[r] = "validate"
    /\ route[r] = "updatePortfolioReview"
    /\ IF ~dbOk \/ ~ProductExists(tables.products, body[r].product_id[1])
       THEN Reply(r, StatusBadRequest, "Invalid product ID")
       ELSE /\ pc' = [pc EXCEPT ![r] = "exec"]
            /\ UNCHANGED resp
    /\ UNCHANGED <<Untouched, contentVars>>

\* UPDATE portfolio_review SET ... WHERE id = $7 RETURNING *
UpdatePortfolioReviewRow(row, newImagePath, req, date, userID) ==
    [row EXCEPT !.id_product = CoalesceNullIf(CoalescePtr(req.product_id, 0), 0,
                                              row.id_product),
                !.title = CoalesceNullIf(req.title, "", row.title),
                !.image = CoalesceNullIf(newImagePath, << >>, row.image),
                !.date = Coalesce(date, row.date),
                !.edited_by = userID]

UpdatePortfolioReviewExec(r, dbOk) ==
    /\ pc[r] = "exec"
    /\ route[r] = "updatePortfolioReview"
    /\ LET id == target[r]
           req == body[r]
           newImagePath == frame[r].newImagePath
           date == IF req.date # "" THEN ParseDate(req.date).value ELSE ZeroTime
       IN IF ~dbOk \/ id \notin 1 .. Len(tables.portfolio_review)
          THEN /\ files' = IF newImagePath # << >>
                           THEN Remove(files, Concat(".", newImagePath))
                           ELSE files
               /\ Reply(r, StatusInternalServerError, "Failed to update portfolio review")
               /\ UNCHANGED tables
          ELSE /\ tables' = [tables EXCEPT !.portfolio_review[id] =
                               UpdatePortfolioReviewRow(@, newImagePath, req, date,
                                                        locals[r].userID)]
               /\ Reply(r, StatusOK, "review")
               /\ UNCHANGED files
    /\ UNCHANGED <<Untouched, goroutines, frame, saved>>

\* --------------------------------------------------- DeletePortfolioReview
DeletePortfolioReview(r, dbOk) ==
    /\ pc[r] = "handler"
    /\ route[r] = "deletePortfolioReview"
    /\ LET after == MarkDeletedIfLive(tables.portfolio_review, now,
                                      locals[r].userID, target[r])
       IN IF ~dbOk
          THEN /\ Reply(r, StatusInternalServerError, "Failed to delete portfolio review")
               /\ UNCHANGED tables
          ELSE IF after = tables.portfolio_review
          THEN /\ Reply(r, StatusNotFound, "Portfolio review not found or already deleted")
               /\ UNCHANGED tables
          ELSE /\ tables' = [tables EXCEPT !.portfolio_review = after]
               /\ Reply(r, StatusNoContent, "")
    /\ UNCHANGED <<Untouched, files, goroutines, frame, saved>>

\* ----------------------------------------------------------- DeleteMessage
DeleteMessage(r, dbOk) ==
    /\ pc[r] = "handler"
    /\ route[r] = "deleteMessage"
    /\ LET after == MarkDeletedIfLive(tables.messages_user, now,
                                      locals[r].userID, target[r])
       IN IF ~dbOk
          THEN /\ Reply(r, StatusInternalServerError, "Failed to delete message")
               /\ UNCHANGED tables
          ELSE IF after = tables.messages_user
          THEN /\ Reply(r, StatusNotFound, "Message not found or already deleted")
               /\ UNCHANGED tables
          ELSE /\ tables' = [tables EXCEPT !.messages_user = after]
               /\ Reply(r, StatusNoContent, "")
    /\ UNCHANGED <<Untouched, files, goroutines, frame, saved>>

\* ------------------------------------------------------------- GetMessages
\* SELECT m.*, p.title, p.image FROM messages_user m
\*   LEFT JOIN products p ON m.id_product = p.id WHERE m.deleted_at IS NULL
\* product_name and product_image are pointers: << >> when no product joins
MessagesWithProduct(messages, products) ==
    { [id |-> i, name |-> messages[i].name, id_product |-> messages[i].id_product,
       product_name |-> IF messages[i].id_product \in 1 .. Len(products)
                        THEN <<products[messages[i].id_product].title>> ELSE << >>,
       product_image |-> IF messages[i].id_product \in 1 .. Len(products)
                         THEN <<products[messages[i].id_product].image>> ELSE << >>] :
        i \in { j \in 1 .. Len(messages) : messages[j].deleted_at = NULL } }

GetMessages(r, dbOk) ==
    /\ pc[r] = "handler"
    /\ route[r] = "getMessages"
    /\ IF ~dbOk
       THEN /\ Reply(r, StatusInternalServerError, "Failed to fetch messages")
            /\ UNCHANGED frame
       ELSE /\ Reply(r, StatusOK, "messages")
            /\ frame' = [frame EXCEPT ![r] =
                           [data |-> MessagesWithProduct(tables.messages_user,
                                                         tables.products)]]
    /\ UNCHANGED <<Untouched, tables, files, goroutines, saved>>

\* ---------------------------------------------------- UpdatePortfolioImage
\* form file and type checks, existence check, upload of the new image
UpdatePortfolioImageSelect(r, dbOk) ==
    /\ pc[r] = "handler"
    /\ route[r] = "updatePortfolioImage"
    /\ LET id == target[r]
           file == body[r].file
           oldImagePath == tables.portfolio_images[id].image
           filename == Filename(saved + 1)
           filePath == Join(ImagesUploadDir, filename)
       IN IF file = ""
          THEN /\ Reply(r, StatusBadRequest, "Image is required")
               /\ UNCHANGED <<files, frame, saved>>
          ELSE IF file \notin AllowedTypes
          THEN /\ Reply(r, StatusBadRequest, "Invalid file type. Allowed: JPG, JPEG, PNG, WEBP")
               /\ UNCHANGED <<files, frame, saved>>
          ELSE IF ~dbOk \/ ~Live(tables.portfolio_images, id)
          THEN /\ Reply(r, StatusNotFound, "Portfolio image not found")
               /\ UNCHANGED <<files, frame, saved>>
          ELSE /\ saved < MaxFiles
               /\ saved' = saved + 1
               /\ files' = SaveFile(files, filePath)
               /\ frame' = [frame EXCEPT ![r] =
                              [existingImage |-> oldImagePath,
                               newImagePath |-> ImagesRef(filename),
                               filePath |-> filePath]]
               /\ pc' = [pc EXCEPT ![r] = "exec"]
               /\ UNCHANGED resp
    /\ UNCHANGED <<Untouched, tables, goroutines>>

\* UPDATE portfolio_images SET image = $1, edited_by = $2 WHERE id = $3
\* RETURNING ...; then the goroutine that removes the old image
UpdatePortfolioImageExec(r, dbOk) ==
    /\ pc[r] = "exec"
    /\ route[r] = "updatePortfolioImage"
    /\ LET id == target[r]
           oldImagePath == frame[r].existingImage
       IN IF ~dbOk \/ id \notin 1 .. Len(tables.portfolio_images)
          THEN /\ files' = Remove(files, frame[r].filePath)
               /\ Reply(r, StatusInternalServerError, "Failed to update portfolio image")
               /\ UNCHANGED <<tables, goroutines>>
          ELSE /\ tables' = [tables EXCEPT !.portfolio_images[id] =
                               [@ EXCEPT !.image = frame[r].newImagePath,
                                         !.edited_by = locals[r].userID]]
               /\ goroutines' = goroutines \cup Go(oldImagePath, Concat("", oldImagePath))
               /\ Reply(r, StatusOK, "image")
               /\ UNCHANGED files
    /\ UNCHANGED <<Untouched, frame, saved>>

\* ---------------------------------------------------- DeletePortfolioImage
DeletePortfolioImageSelect(r, dbOk) ==
    /\ pc[r] = "handler"
    /\ route[r] = "deletePortfolioImage"
    /\ IF locals[r].userRole # RoleAdmin
       THEN /\ Reply(r, StatusForbidden, "Admin access required")
            /\ UNCHANGED frame
       ELSE IF ~dbOk \/ ~Live(tables.portfolio_images, target[r])
       THEN /\ Reply(r, StatusNotFound, "Portfolio image not found")
            /\ UNCHANGED frame
       ELSE /\ pc' = [pc EXCEPT ![r] = "exec"]
            /\ frame' = [frame EXCEPT ![r] =
                           [existingImage |-> tables.portfolio_images[target[r]].image,
                            newImagePath |-> << >>]]
            /\ UNCHANGED resp
    /\ UNCHANGED <<Untouched, tables, files, goroutines, saved>>

DeletePortfolioImageExec(r, dbOk) ==
    /\ pc[r] = "exec"
    /\ route[r] = "deletePortfolioImage"
    /\ LET id == target[r]
           imagePath == frame[r].existingImage
       IN IF ~dbOk
          THEN /\ Reply(r, StatusInternalServerError, "Failed to delete portfolio image")
               /\ UNCHANGED <<tables, goroutines>>
          ELSE IF id \notin 1 .. Len(tables.portfolio_images)
          THEN /\ Reply(r, StatusNotFound, "Portfolio image not found")
               /\ UNCHANGED <<tables, goroutines>>
          ELSE /\ tables' = [tables EXCEPT !.portfolio_images =
                               MarkDeleted(@, now, locals[r].userID, id)]
               /\ goroutines' = goroutines \cup Go(imagePath, Concat("", imagePath))
               /\ Reply(r, StatusOK, "Portfolio image deleted successfully")
    /\ UNCHANGED <<Untouched, files, frame, saved>>

\* --------------------------------------------------------------- goroutines
\* a detached deletion is scheduled and calls os.Remove
RunGoroutine ==
    \E p \in goroutines :
        /\ files' = Remove(files, p)
        /\ goroutines' = goroutines \ {p}
        /\ UNCHANGED <<Untouched, pc, resp, tables, frame, saved>>

\* variant: a deletion that fails takes back the soft deletes
GoroutineFails_Rollback ==
    \E p \in goroutines :
        /\ goroutines' = goroutines \ {p}
        /\ tables' = [t \in DOMAIN tables |->
                         [i \in 1 .. Len(tables[t]) |->
                             [tables[t][i] EXCEPT !.deleted_at = NULL,
                                                  !.deleted_by = NULL]]]
        /\ UNCHANGED <<Untouched, pc, resp, files, frame, saved>>

\* a detached deletion whose os.Remove returns an error (the file is in use,
\* not permitted, ...): the error goes to log.Printf and the goroutine ends
GoroutineFails ==
    \E p \in goroutines :
        /\ goroutines' = goroutines \ {p}
        /\ UNCHANGED <<Untouched, pc, resp, tables, files, frame, saved>>

\* ------------------------------------------------------------ environment
\* what a client can put in the Authorization header: nothing, a bare
\* scheme, another scheme, or Bearer with a token it holds or fabricated
BearerIssued == { Header("Bearer ", t) : t \in issued }

Headers ==
    {NoHeader, Header("Bearer ", NoCred)}
    \cup { Header("Basic ", t) : t \in issued }
    \cup { Header("Bearer ", t) : t \in ForgedTokens }
    \cup BearerIssued

LoginBodies ==
    { [username |-> "root", password |-> "rootpass1"],
      [username |-> "budi", password |-> "budipass2"],
      [username |-> "budi", password |-> "wrongpass"],
      [username |-> "nobody", password |-> "rootpass1"] }

Targets == 1 .. Len(users) + 1

\* ------------------------------------------------- gate + session routes
NextAuth ==
    \/ \E r \in Req :
         \/ \E b \in LoginBodies : Login(r, b, TRUE)
         \/ \E h \in BearerIssued : AuthMiddleware(r, "logout", h, 0, NoBody, TRUE)
         \/ \E h \in Headers : AuthMiddleware(r, "deleteUser", h, 2, NoBody, TRUE)
         \/ LogoutParse(r)
         \/ \E unique \in BOOLEAN : LogoutInsert(r, unique, TRUE)
         \/ DeleteUser(r, TRUE)
    \/ Tick

Spec == Init /\ [][NextAuth]_vars

\* ------------------------------------------------------- user maintenance
\* both accounts have logged in at time 0
InitLoggedIn ==
    /\ now = 0
    /\ users = InitUsers
    /\ token_blacklist = {}
    /\ issued = { Token(u, InitUsers[u].role, TokenTTL, "valid") : u \in 1 .. Len(InitUsers) }
    /\ loggedOut = {}
    /\ pc = [r \in Req |-> "idle"]
    /\ route = [r \in Req |-> "none"]
    /\ header = [r \in Req |-> NoHeader]
    /\ target = [r \in Req |-> 0]
    /\ body = [r \in Req |-> NoBody]
    /\ locals = [r \in Req |-> NoLocals]
    /\ resp = [r \in Req |-> NoResp]
    /\ InitContent

UpdateBodies ==
    { UpdateRequest("Alice", "", "", "", RoleAdmin, << >>),
      UpdateRequest("", "", "", "", "", <<FALSE>>),
      UpdateRequest("", "", "root", "", "", <<TRUE>>),
      UpdateRequest("Al", "", "", "", RoleStaff, << >>) }

NextUsers ==
    \/ \E h \in BearerIssued, t \in Targets, b \in UpdateBodies :
          AuthMiddleware(1, "updateUser", h, t, b, TRUE)
    \/ UpdateUser(1, TRUE)
    \/ Tick

SpecUsers == InitLoggedIn /\ [][NextUsers]_vars

\* the gate in front of DeleteUser when a database statement may fail
NextFault ==
    \/ \E r \in Req :
         \/ \E b \in LoginBodies : Login(r, b, TRUE)
         \/ \E h \in Headers, dbOk \in BOOLEAN :
               AuthMiddleware(r, "deleteUser", h, 2, NoBody, dbOk)
         \/ \E dbOk \in BOOLEAN : DeleteUser(r, dbOk)
    \/ Tick

SpecFault == Init /\ [][NextFault]_vars

\* goroutines are scheduled and the clock advances
FairSpec == Init /\ [][NextAuth]_vars /\ WF_vars(Tick) /\ WF_vars(NextAuth)

\* --------------------------------------------------------- content routes
ProductBodies ==
    { ProductUpdateRequest("Desk", "", << >>, ""),
      ProductUpdateRequest("", "250.00", <<FALSE>>, ".png"),
      ProductUpdateRequest("", "abc", << >>, ".png"),
      ProductUpdateRequest("", "-1.00", << >>, ""),
      ProductUpdateRequest("", "", << >>, ".exe") }

CarouselBodies ==
    { CarouselUpdateRequest("Sale", "", ""),
      CarouselUpdateRequest("", "false", ".png"),
      CarouselUpdateRequest("", "maybe", "") }

ReviewBodies ==
    { PortfolioReviewUpdateRequest(<< >>, "Great", "", ""),
      PortfolioReviewUpdateRequest(<<1>>, "", "2024-01-09", ".png"),
      PortfolioReviewUpdateRequest(<<2>>, "", "", ""),
      PortfolioReviewUpdateRequest(<< >>, "", "bogus", ".png"),
      PortfolioReviewUpdateRequest(<< >>, "", "", ".exe") }

\* the :id parameter: the row of the table, or an id that was never used
ContentTargets == {1, 2}

DeleteRoutes ==
    {"deleteUser", "deleteProduct", "deleteCarousel", "deletePortfolioReview",
     "deleteMessage"}

\* products; statements may fail
NextProducts ==
    \/ \E h \in BearerIssued, t \in ContentTargets :
         \/ \E b \in ProductBodies : AuthMiddleware(1, "updateProduct", h, t, b, TRUE)
         \/ AuthMiddleware(1, "deleteProduct", h, t, NoBody, TRUE)
    \/ \E dbOk \in BOOLEAN :
         \/ UpdateProductSelect(1, dbOk)
         \/ UpdateProductExec(1, dbOk)
         \/ DeleteProductSelect(1, dbOk)
         \/ DeleteProductExec(1, dbOk)
    \/ RunGoroutine
    \/ Tick

SpecProducts == InitLoggedIn /\ [][NextProducts]_vars

\* messages and the products they refer to
NextMessages ==
    \/ \E r \in Req, h \in BearerIssued :
         \/ AuthMiddleware(r, "deleteProduct", h, 1, NoBody, TRUE)
         \/ AuthMiddleware(r, "deleteMessage", h, 1, NoBody, TRUE)
         \/ AuthMiddleware(r, "getMessages", h, 0, NoBody, TRUE)
    \/ \E r \in Req :
         \/ DeleteProductSelect(r, TRUE)
         \/ DeleteProductExec(r, TRUE)
         \/ DeleteMessage(r, TRUE)
         \/ GetMessages(r, TRUE)
    \/ RunGoroutine
    \/ Tick

SpecMessages == InitLoggedIn /\ [][NextMessages]_vars

\* portfolio reviews; statements may fail
NextReviews ==
    \/ \E h \in BearerIssued, t \in ContentTargets :
         \/ \E b \in ReviewBodies :
              AuthMiddleware(1, "updatePortfolioReview", h, t, b, TRUE)
         \/ AuthMiddleware(1, "deletePortfolioReview", h, t, NoBody, TRUE)
    \/ \E dbOk \in BOOLEAN :
         \/ UpdatePortfolioReviewSelect(1, dbOk)
         \/ UpdatePortfolioReviewValidate(1, dbOk)
         \/ UpdatePortfolioReviewExec(1, dbOk)
         \/ DeletePortfolioReview(1, dbOk)
    \/ RunGoroutine
    \/ Tick

SpecReviews == InitLoggedIn /\ [][NextReviews]_vars

\* carousel and portfolio reviews with a working database; handlers and
\* goroutines are scheduled
NextCleanup ==
    \/ \E h \in BearerIssued :
         \/ \E b \in CarouselBodies : AuthMiddleware(1, "updateCarousel", h, 1, b, TRUE)
         \/ AuthMiddleware(1, "deleteCarousel", h, 1, NoBody, TRUE)
         \/ AuthMiddleware(1, "deletePortfolioReview", h, 1, NoBody, TRUE)
    \/ UpdateCarouselSelect(1, TRUE)
    \/ UpdateCarouselExec(1, TRUE)
    \/ DeleteCarouselSelect(1, TRUE)
    \/ DeleteCarouselExec(1, TRUE)
    \/ DeletePortfolioReview(1, TRUE)
    \/ RunGoroutine
    \/ Tick

FairCleanup ==
    InitLoggedIn /\ [][NextCleanup]_vars
        /\ WF_vars(RunGoroutine)
        /\ WF_vars(UpdateCarouselExec(1, TRUE))
        /\ WF_vars(DeleteCarouselExec(1, TRUE))

\* two clients update and delete the same product, statement by statement
NextRace ==
    \/ \E r \in Req :
         \/ \E h \in BearerIssued :
              \/ AuthMiddleware(r, "updateProduct", h, 1,
                                ProductUpdateRequest("Desk", "", << >>, ""), TRUE)
              \/ AuthMiddleware(r, "deleteProduct", h, 1, NoBody, TRUE)
         \/ UpdateProductSelect(r, TRUE)
         \/ UpdateProductExec(r, TRUE)
         \/ DeleteProductSelect(r, TRUE)
         \/ DeleteProductExec(r, TRUE)
    \/ RunGoroutine

SpecRace == InitLoggedIn /\ [][NextRace]_vars

\* deletes of every resource, one after another
NextDelete ==
    \/ \E h \in BearerIssued, t \in ContentTargets, rt \in DeleteRoutes :
         AuthMiddleware(1, rt, h, t, NoBody, TRUE)
    \/ DeleteUser(1, TRUE)
    \/ DeleteProductSelect(1, TRUE)
    \/ DeleteProductExec(1, TRUE)
    \/ DeleteCarouselSelect(1, TRUE)
    \/ DeleteCarouselExec(1, TRUE)
    \/ DeletePortfolioReview(1, TRUE)
    \/ DeleteMessage(1, TRUE)
    \/ RunGoroutine
    \/ Tick

SpecDelete == InitLoggedIn /\ [][NextDelete]_vars

\* users are deleted and updated
NextSoftDelete ==
    \/ \E h \in BearerIssued, t \in Targets :
         \/ AuthMiddleware(1, "deleteUser", h, t, NoBody, TRUE)
         \/ \E b \in UpdateBodies : AuthMiddleware(1, "updateUser", h, t, b, TRUE)
    \/ DeleteUser(1, TRUE)
    \/ UpdateUser(1, TRUE)
    \/ Tick

SpecSoftDelete == InitLoggedIn /\ [][NextSoftDelete]_vars

\* the "image" form file of UpdatePortfolioImage, by extension
ImageBodies == { [file |-> ".png"], [file |-> ""], [file |-> ".exe"] }

\* portfolio images and products; statements and deletions of files may fail
NextArtifacts ==
    \/ \E h \in BearerIssued, t \in ContentTargets :
         \/ \E b \in ImageBodies : AuthMiddleware(1, "updatePortfolioImage", h, t, b, TRUE)
         \/ AuthMiddleware(1, "deletePortfolioImage", h, t, NoBody, TRUE)
         \/ AuthMiddleware(1, "deleteProduct", h, t, NoBody, TRUE)
    \/ \E dbOk \in BOOLEAN :
         \/ UpdatePortfolioImageSelect(1, dbOk)
         \/ UpdatePortfolioImageExec(1, dbOk)
         \/ DeletePortfolioImageSelect(1, dbOk)
         \/ DeletePortfolioImageExec(1, dbOk)
         \/ DeleteProductSelect(1, dbOk)
         \/ DeleteProductExec(1, dbOk)
    \/ RunGoroutine
    \/ GoroutineFails
    \/ Tick

SpecArtifacts == InitLoggedIn /\ [][NextArtifacts]_vars

\* two clients update the same row, each its own fields, statement by
\* statement
ReviewFieldBodies ==
    { PortfolioReviewUpdateRequest(<< >>, "", "2024-01-09", ""),
      PortfolioReviewUpdateRequest(<< >>, "Great", "", "") }

CarouselFieldBodies ==
    { CarouselUpdateRequest("Sale", "", ""),
      CarouselUpdateRequest("", "false", "") }

NextUpdateRace ==
    \E r \in Req :
        \/ \E h \in BearerIssued :
             \/ \E b \in ReviewFieldBodies :
                  AuthMiddleware(r, "updatePortfolioReview", h, 1, b, TRUE)
             \/ \E b \in CarouselFieldBodies :
                  AuthMiddleware(r, "updateCarousel", h, 1, b, TRUE)
        \/ UpdatePortfolioReviewSelect(r, TRUE)
        \/ UpdatePortfolioReviewExec(r, TRUE)
        \/ UpdateCarouselSelect(r, TRUE)
        \/ UpdateCarouselExec(r, TRUE)

SpecUpdateRace == InitLoggedIn /\ [][NextUpdateRace]_vars

\* logins while an administrator deletes and updates the second account
NextLogin ==
    \/ \E b \in LoginBodies, dbOk \in BOOLEAN : Login(1, b, dbOk)
    \/ \E h \in BearerIssued :
         \/ AuthMiddleware(1, "deleteUser", h, 2, NoBody, TRUE)
         \/ \E b \in UpdateBodies : AuthMiddleware(1, "updateUser", h, 2, b, TRUE)
    \/ DeleteUser(1, TRUE)
    \/ UpdateUser(1, TRUE)
    \/ Tick

SpecLogin == Init /\ [][NextLogin]_vars

\* accounts are registered, created and updated
RegisterBodies ==
    { RegisterRequest("Mallory", "62811000003", "mallory", "Secret123", ""),
      RegisterRequest("Mallory", "62811000003", "mallory", "Secret123", RoleUser),
      RegisterRequest("Mallory", "62811000003", "mallory", "password", RoleAdmin),
      RegisterRequest("Mallory", "+620000001", "mallory", "Secret123", RoleUser) }

CreateBodies ==
    { CreateRequest("Eve", "+620000003", "eve", "evepass33", RoleAdmin),
      CreateRequest("Eve", "+620000003", "eve", "evepass33", ""),
      CreateRequest("Ev", "+620000003", "eve", "evepass33", RoleStaff) }

NextAccounts ==
    \/ \E b \in RegisterBodies, dbOk \in BOOLEAN : RegisterUser(1, b, dbOk)
    \/ \E h \in BearerIssued :
         \/ \E b \in CreateBodies : AuthMiddleware(1, "createUser", h, 0, b, TRUE)
         \/ \E b \in UpdateBodies, t \in Targets :
              AuthMiddleware(1, "updateUser", h, t, b, TRUE)
    \/ \E dbOk \in BOOLEAN : CreateUser(1, dbOk)
    \/ UpdateUser(1, TRUE)

SpecAccounts == InitLoggedIn /\ [][NextAccounts]_vars

\* ================================================================ claims
Slot(r) == <<pc[r], route[r], header[r], target[r], body[r], locals[r], resp[r]>>

\* in this step slot r takes in a new request to a protected route
GateStep(r) ==
    /\ pc[r] \in {"idle", "done"}
    /\ Slot(r)' # Slot(r)
    /\ Protected(route'[r])

Cred(r) == ExtractToken(header[r])

\* the entity store and the artifact store
Stores == <<users, token_blacklist, tables, files>>

\* ---------------------------------------------------------------------
\* C1: once Logout has succeeded for a token, every request that presents
\* the token to AuthMiddleware afterwards is answered 401 without reaching
\* its handler, although the token is signed and unexpired; and no step
\* removes an unexpired row from token_blacklist.
C1_Rejected ==
    \A r \in Req :
        (GateStep(r) /\ ExtractToken(header'[r]) \in loggedOut)
            => (pc'[r] = "done" /\ resp'[r].status = StatusUnauthorized)

C1_Kept ==
    \A e \in token_blacklist : e.expires_at > now => e \in token_blacklist'

THM_C1 == [][C1_Rejected /\ C1_Kept]_vars

WIT_C1 ==
    \E r \in Req :
        /\ pc[r] = "done"
        /\ Cred(r) \in loggedOut
        /\ TokenValidAt(Cred(r), now)
        /\ resp[r] = Response(StatusUnauthorized, "Token revoked")

\* ---------------------------------------------------------------------
\* C2: a request whose header is missing, has no Bearer credential, carries
\* a token with a bad signature or carries an expired token gets the same
\* status from AuthMiddleware as a request with no Authorization header.
CredentialInvalid(h, t) ==
    \/ h = NoHeader
    \/ h.prefix # "Bearer "
    \/ h.cred = NoCred
    \/ h.cred.sig # "valid"
    \/ h.cred.exp <= t

THM_C2 ==
    [][\A r \in Req :
          (GateStep(r) /\ CredentialInvalid(header'[r], now))
              => /\ pc'[r] = "done"
                 /\ resp'[r].status =
                       AuthDecision(NoHeader, now, token_blacklist, TRUE).status]_vars

WIT_C2 ==
    \E r1, r2 \in Req :
        /\ pc[r1] = "done" /\ Protected(route[r1]) /\ header[r1] = NoHeader
        /\ pc[r2] = "done" /\ Protected(route[r2]) /\ Cred(r2) \in issued
        /\ resp[r2].msg = "Invalid token"
        /\ resp[r1].status = StatusUnauthorized
        /\ resp[r2].status = StatusUnauthorized

\* ---------------------------------------------------------------------
\* C3: every denial by AuthMiddleware, the one after a failed blacklist
\* lookup included, has the status of the invalid-credential denial.
CEX_C3 ==
    \A r \in Req :
        (pc[r] = "done" /\ Protected(route[r]) /\ locals[r] = NoLocals)
            => resp[r].status = StatusUnauthorized

\* ---------------------------------------------------------------------
\* C4: a request to a protected route whose credential is missing, invalid,
\* expired or revoked ends in a rejection in the step that takes it in: it
\* never reaches a handler and the step changes no table.
CredentialBad(h, t, bl) ==
    CredentialInvalid(h, t) \/ \E e \in bl : e.token = h.cred

THM_C4 ==
    [][\A r \in Req :
          (GateStep(r) /\ CredentialBad(header'[r], now, token_blacklist))
              => /\ pc'[r] = "done"
                 /\ resp'[r].status >= StatusBadRequest
                 /\ Stores' = Stores]_vars

WIT_C4 ==
    \E r \in Req :
        /\ pc[r] = "done" /\ route[r] = "deleteUser"
        /\ resp[r] = Response(StatusUnauthorized, "Token revoked")
        /\ users[target[r]].deleted_at = NULL

\* ---------------------------------------------------------------------
\* C5: while a handler of a protected route runs, the userID and userRole
\* it reads are the user_id and role claims of the token of its own
\* request, whatever other requests are in flight or came before.
THM_C5 ==
    \A r \in Req :
        (pc[r] \in {"handler", "insert"})
            => /\ Cred(r) \in issued
               /\ locals[r].userID = Cred(r).uid
               /\ locals[r].userRole = Cred(r).role

WIT_C5 ==
    \E r1, r2 \in Req :
        /\ pc[r1] = "handler" /\ pc[r2] = "handler"
        /\ locals[r1].userID # locals[r2].userID

\* ---------------------------------------------------------------------
\* C6: two Logout requests with the same token that both reach the INSERT
\* both answer success and leave exactly one row for the token.
ReachedInsert(r) ==
    /\ pc[r] = "done" /\ route[r] = "logout"
    /\ resp[r].msg \in {"Successfully logged out", "Failed to logout"}

CEX_C6 ==
    \A r1, r2 \in Req :
        (r1 # r2 /\ ReachedInsert(r1) /\ ReachedInsert(r2) /\ Cred(r1) = Cred(r2))
            => /\ resp[r1].status = StatusOK
               /\ resp[r2].status = StatusOK
               /\ BlacklistCount(token_blacklist, Cred(r1)) = 1

\* ---------------------------------------------------------------------
\* C7: for every header a client can present and at every time, the gate
\* decides the same against token_blacklist as against token_blacklist
\* with the rows whose expires_at <= now purged.
purgeExpired(bl, t) == { e \in bl : ~(e.expires_at <= t) }

THM_C7 ==
    \A h \in Headers :
        AuthDecision(h, now, token_blacklist, TRUE)
            = AuthDecision(h, now, purgeExpired(token_blacklist, now), TRUE)

WIT_C7 ==
    \E e \in token_blacklist :
        /\ e.expires_at <= now
        /\ Header("Bearer ", e.token) \in Headers
        /\ purgeExpired(token_blacklist, now) # token_blacklist

\* ---------------------------------------------------------------------
\* C8: a row that Logout inserted is eventually removed from token_blacklist
\* once the clock has passed its expires_at.
ExpiringRows ==
    { BlacklistRow(Token(u, InitUsers[u].role, e, "valid"), e, 0) :
        u \in 1 .. Len(InitUsers), e \in TokenTTL .. MaxTime }

CEX_C8 == \A e \in ExpiringRows : (e \in token_blacklist) ~> (e \notin token_blacklist)

\* ---------------------------------------------------------------------
\* C9: when a requester who is not admin updates a user with role or status
\* in the body, the stored role and status stay as they were; the request
\* is answered 200 whenever it passes the ownership check, its fields are
\* valid and no unique index is hit, and then the other fields of the body
\* are written.
UpdateStep(r) == pc[r] = "handler" /\ route[r] = "updateUser" /\ pc'[r] = "done"

Restricted(req) == req.role # "" \/ req.status # << >>

NoConflict(req, us, id) ==
    \A j \in 1 .. Len(us) :
        j # id => /\ req.username # "" => us[j].username # req.username
                  /\ req.phone # "" => us[j].phone # req.phone

Applied(req, row) ==
    /\ req.name # "" => row.name = req.name
    /\ req.phone # "" => row.phone = req.phone
    /\ req.username # "" => row.username = req.username
    /\ req.password # "" => CompareHashAndPassword(row.password, req.password)

THM_C9 ==
    [][\A r \in Req :
          (UpdateStep(r) /\ locals[r].userRole # RoleAdmin /\ Restricted(body[r]))
              => /\ \A i \in 1 .. Len(users) :
                        /\ users'[i].role = users[i].role
                        /\ users'[i].status = users[i].status
                 /\ resp'[r].status = StatusOK => Applied(body[r], users'[target[r]])
                 /\ ( /\ locals[r].userID = target[r]
                      /\ validateUpdateRequest(body[r])
                      /\ NoConflict(body[r], users, target[r]) )
                        => resp'[r].status = StatusOK]_vars

WIT_C9 ==
    \E r \in Req :
        /\ pc[r] = "done" /\ route[r] = "updateUser"
        /\ locals[r].userRole = RoleUser
        /\ body[r] = UpdateRequest("Alice", "", "", "", RoleAdmin, << >>)
        /\ resp[r].status = StatusOK
        /\ users[target[r]].name = "Alice"
        /\ users[target[r]].role = RoleUser

\* ---------------------------------------------------------------------
\* C10: after a successful update the row's edited_by is the requester's
\* id and its edited_at is later than it was before the update.
CEX_C10 ==
    [][\A r \in Req :
          (UpdateStep(r) /\ resp'[r].status = StatusOK)
              => /\ users'[target[r]].edited_by = locals[r].userID
                 /\ users'[target[r]].edited_at > users[target[r]].edited_at]_vars

\* ---------------------------------------------------------------------
\* C11: after a successful update, every field that the request left out
\* (or sent as the empty string) has the value it had before; checked on
\* UpdatePortfolioReview for title, image, id_product and date.
ReviewUpdateStep(r) ==
    /\ pc[r] = "exec" /\ route[r] = "updatePortfolioReview"
    /\ pc'[r] = "done" /\ resp'[r].status = StatusOK

CEX_C11 ==
    [][\A r \in Req :
          ReviewUpdateStep(r) =>
              LET req == body[r]
                  old == tables.portfolio_review[target[r]]
                  new == tables'.portfolio_review[target[r]]
              IN /\ req.title = "" => new.title = old.title
                 /\ req.file = "" => new.image = old.image
                 /\ req.product_id = << >> => new.id_product = old.id_product
                 /\ req.date = "" => new.date = old.date]_vars

\* ---------------------------------------------------------------------
\* C12: an update of a row whose deleted_at is set answers 404 and leaves
\* the row as it is, whatever the body holds; checked on UpdateUser for
\* requests that pass its ownership check and its field validation.
CEX_C12 ==
    [][\A r \in Req :
          ( /\ UpdateStep(r)
            /\ target[r] \in 1 .. Len(users)
            /\ users[target[r]].deleted_at # NULL
            /\ (locals[r].userRole = RoleAdmin \/ locals[r].userID = target[r])
            /\ validateUpdateRequest(body[r]) )
              => /\ resp'[r].status = StatusNotFound
                 /\ users'[target[r]] = users[target[r]]]_vars

\* ---------------------------------------------------------------------
\* C13: once the deleted_at of a row is set, no step changes a field of the
\* row, whatever the interleaving of updates and deletes; checked on the
\* rows of every content table.
Frozen(table) ==
    \A id \in 1 .. Len(tables[table]) :
        tables[table][id].deleted_at # NULL
            => tables'[table][id] = tables[table][id]

CEX_C13 == [][\A table \in DOMAIN tables : Frozen(table)]_vars

\* ---------------------------------------------------------------------
\* C14: no read returns data of a soft-deleted row; checked on GetMessages:
\* every message it returns is a live row, and the product title and image
\* it returns with a message come from a live product.
CEX_C14 ==
    [][\A r \in Req :
          ( /\ pc[r] = "handler" /\ route[r] = "getMessages"
            /\ resp'[r].status = StatusOK )
              => \A m \in frame'[r].data :
                    /\ Live(tables.messages_user, m.id)
                    /\ m.product_name # << >> => Live(tables.products, m.id_product)
                    /\ m.product_image # << >> => Live(tables.products, m.id_product)]_vars

\* ---------------------------------------------------------------------
\* C15: a delete that starts when its target row is already soft-deleted,
\* or was never there, answers 404 and changes no row, so deleted_at and
\* deleted_by stay as the first delete wrote them; for every delete handler
\* and every requester the handler lets through its role checks.
RowsOf(rt) ==
    IF rt = "deleteUser" THEN users
    ELSE IF rt = "deleteProduct" THEN tables.products
    ELSE IF rt = "deleteCarousel" THEN tables.carousel
    ELSE IF rt = "deletePortfolioReview" THEN tables.portfolio_review
    ELSE tables.messages_user

MayDelete(r) ==
    /\ route[r] \in {"deleteUser", "deleteProduct", "deleteCarousel"}
          => locals[r].userRole = RoleAdmin
    /\ route[r] = "deleteUser" => locals[r].userID # target[r]

Finishes(r, status) == pc[r] # "done" /\ pc'[r] = "done" /\ resp'[r].status = status

CEX_C16 ==
    [][/\ (goroutines' \ goroutines # {}) => \E r \in Req : Finishes(r, StatusOK)
       /\ \A r \in Req :
            ( /\ route[r] = "updateProduct" /\ pc[r] = "exec"
              /\ Finishes(r, StatusInternalServerError) )
                => FsKey(Concat(".", tables'.products[target[r]].image)) \in files']_vars

\* ---------------------------------------------------------------------
\* C17: when an update has saved a new image and its UPDATE fails, the
\* saved file is gone when the error is answered; checked on
\* UpdatePortfolioReview.
SavedName(r) == frame[r].newImagePath[Len(frame[r].newImagePath)]

CEX_C17 ==
    [][\A r \in Req :
          ( /\ route[r] = "updatePortfolioReview" /\ pc[r] = "exec"
            /\ frame[r].newImagePath # << >>
            /\ Finishes(r, StatusInternalServerError) )
              => FsKey(Join(ReviewsUploadDir, SavedName(r))) \notin files']_vars

\* ---------------------------------------------------------------------
\* C18: once an update has replaced the image of a row, the file of the
\* old image is eventually gone from disk, given that goroutines and
\* handlers are scheduled; checked on the first image of carousel row 1.
CEX_C18 ==
    (tables.carousel[1].image # CarouselRef("c1"))
        ~> (FsKey(Join(CarouselUploadDir, "c1")) \notin files)

\* ---------------------------------------------------------------------
\* C19: once a row with an image is soft-deleted, the file of the image is
\* eventually gone from disk, given that goroutines and handlers are
\* scheduled; checked on carousel row 1 and portfolio review 1.
CEX_C19 ==
    /\ (tables.carousel[1].deleted_at # NULL)
          ~> (FsKey(tables.carousel[1].image) \notin files)
    /\ (tables.portfolio_review[1].deleted_at # NULL)
          ~> (FsKey(tables.portfolio_review[1].image) \notin files)

\* ---------------------------------------------------------------------
\* C20: an update answers 404 when its statement matches no row and 409
\* when it hits a unique index, never 500 for either; checked on UpdateUser
\* for requests that pass its ownership check and its field validation.
CEX_C20 ==
    [][\A r \in Req :
          ( /\ UpdateStep(r)
            /\ (locals[r].userRole = RoleAdmin \/ locals[r].userID = target[r])
            /\ validateUpdateRequest(body[r]) )
              => /\ target[r] \notin 1 .. Len(users)
                       => resp'[r].status = StatusNotFound
                 /\ ( /\ target[r] \in 1 .. Len(users)
                      /\ ~NoConflict(body[r], users, target[r]) )
                       => resp'[r].status = StatusConflict]_vars

\* ---------------------------------------------------------------------
\* C21: a step of a detached deletion, whether its os.Remove succeeds or
\* fails, changes no row of any table and no response or position of any
\* request: the mutation stays committed and the answer stays as it was.
GoroutineStep == goroutines' # goroutines /\ goroutines' \subseteq goroutines

THM_C21 ==
    [][GoroutineStep =>
          /\ tables' = tables
          /\ users' = users
          /\ resp' = resp
          /\ pc' = pc]_vars

\* the deletion after a successful DeletePortfolioImage has failed: the
\* row is deleted, the answer is 200 and the file is still there
WIT_C21 ==
    /\ pc[1] = "done" /\ route[1] = "deletePortfolioImage"
    /\ resp[1].status = StatusOK
    /\ tables.portfolio_images[1].deleted_at # NULL
    /\ goroutines = {}
    /\ FsKey(tables.portfolio_images[1].image) \in files

\* ---------------------------------------------------------------------
\* C22: of two delete requests for the same row at most one is answered
\* with success, also when both run their existence check before either
\* runs its UPDATE; checked on DeleteProduct.
DeletedOK(r) ==
    /\ pc[r] = "done" /\ route[r] = "deleteProduct"
    /\ resp[r].status = StatusOK

CEX_C22 ==
    \A r1, r2 \in Req :
        (r1 # r2 /\ DeletedOK(r1) /\ DeletedOK(r2)) => target[r1] # target[r2]

\* ---------------------------------------------------------------------
\* C23: when two updates of the same row that set different fields have
\* both answered success, every field that either of them set has that
\* update's value and edited_by is the id of one of the two requesters;
\* checked on UpdatePortfolioReview with one update of the date and one of
\* the title.
Updated(r, rt) == pc[r] = "done" /\ route[r] = rt /\ resp[r].status = StatusOK

CEX_C23 ==
    \A r1, r2 \in Req :
        ( /\ Updated(r1, "updatePortfolioReview")
          /\ Updated(r2, "updatePortfolioReview")
          /\ target[r1] = target[r2]
          /\ body[r1].date # "" /\ body[r1].title = ""
          /\ body[r2].title # "" /\ body[r2].date = "" )
            => LET row == tables.portfolio_review[target[r1]]
               IN /\ row.date = ParseDate(body[r1].date).value
                  /\ row.title = body[r2].title
                  /\ row.edited_by \in {locals[r1].userID, locals[r2].userID}

\* ---------------------------------------------------------------------
\* C24: Login answers with a token only when a row with the username has
\* deleted_at NULL and its hash matches the password; the token carries the
\* id and the role of that row as they are at the login, is signed and
\* expires 24 hours later; every other login, unknown username and wrong
\* password alike, gets the one 401 answer and signs nothing.
LoginStep(r) ==
    /\ pc[r] \in {"idle", "done"}
    /\ route'[r] = "login"
    /\ Slot(r)' # Slot(r)

Matches(i, b) ==
    /\ users[i].username = b.username
    /\ users[i].deleted_at = NULL
    /\ CompareHashAndPassword(users[i].password, b.password)

THM_C24 ==
    [][\A r \in Req :
          LoginStep(r) =>
              LET b == body'[r]
                  tok == resp'[r].token
              IN IF tok # NoCred
                 THEN /\ resp'[r].status = StatusOK
                      /\ tok.uid \in 1 .. Len(users)
                      /\ Matches(tok.uid, b)
                      /\ tok.role = users[tok.uid].role
                      /\ tok.exp = now + TokenTTL
                      /\ tok.sig = "valid"
                      /\ issued' = issued \cup {tok}
                 ELSE /\ resp'[r] = Response(StatusUnauthorized,
                                             "Invalid username or password")
                      /\ issued' = issued]_vars

\* the second account logs in after its role was changed, and gets the
\* new role
WIT_C24 ==
    /\ pc[1] = "done" /\ route[1] = "login"
    /\ resp[1].token # NoCred
    /\ resp[1].token.uid = 2
    /\ resp[1].token.role = RoleAdmin
    /\ InitUsers[2].role = RoleUser
    /\ now > 0

\* ---------------------------------------------------------------------
\* C25: an UpdateUser request whose token has a role other than admin and
\* a user_id other than the target is answered 403 and changes no row of
\* users; whatever a requester who is not admin sends, only the row with
\* its own id can change.
THM_C25 ==
    [][\A r \in Req :
          (UpdateStep(r) /\ Cred(r).role # RoleAdmin) =>
              /\ Cred(r).uid # target[r] =>
                    /\ resp'[r].status = StatusForbidden
                    /\ users' = users
              /\ \A i \in 1 .. Len(users) :
                    i # Cred(r).uid => users'[i] = users[i]]_vars

WIT_C25 ==
    \E r \in Req :
        /\ pc[r] = "done" /\ route[r] = "updateUser"
        /\ Cred(r).role = RoleUser
        /\ Cred(r).uid # target[r]
        /\ target[r] \in 1 .. Len(users)
        /\ validateUpdateRequest(body[r])
        /\ resp[r] = Response(StatusForbidden, "You can only update your own profile")

\* ---------------------------------------------------------------------
\* C26: a DeleteUser request changes users only when its token has role
\* admin and a user_id other than the target, and then it changes only the
\* target row and writes that user_id to deleted_by; so no row is ever
\* deleted by its own user.
DeleteUserStep(r) == pc[r] = "handler" /\ route[r] = "deleteUser" /\ pc'[r] = "done"

DeletedByOther ==
    \A i \in 1 .. Len(users) : users[i].deleted_at # NULL => users[i].deleted_by # i

THM_C26 ==
    /\ []DeletedByOther
    /\ [][\A r \in Req :
             (DeleteUserStep(r) /\ users' # users) =>
                 /\ Cred(r).role = RoleAdmin
                 /\ Cred(r).uid # target[r]
                 /\ users'[target[r]].deleted_by = Cred(r).uid
                 /\ \A i \in 1 .. Len(users) :
                       i # target[r] => users'[i] = users[i]]_vars

\* the second account, deleted by the administrator, asks to delete the
\* administrator and is refused
WIT_C26 ==
    \E r \in Req :
        /\ pc[r] = "done" /\ route[r] = "deleteUser"
        /\ Cred(r).role = RoleUser /\ Cred(r).uid = 2
        /\ target[r] = 1
        /\ resp[r] = Response(StatusForbidden, "Admin access required")
        /\ users[1].deleted_at = NULL
        /\ users[2].deleted_at # NULL /\ users[2].deleted_by = 1

\* ---------------------------------------------------------------------
\* C27: every row that a step adds to token_blacklist holds a token that
\* is signed with the secret, is unexpired and has no row yet at that
\* step, and the row's expires_at is the exp claim of the token.
CEX_C27 ==
    [][\A e \in token_blacklist' \ token_blacklist :
          /\ e.token # NoCred
          /\ e.token.sig = "valid"
          /\ e.expires_at = e.token.exp
          /\ now < e.token.exp
          /\ ~BlacklistExists(token_blacklist, e.token)]_vars

\* ---------------------------------------------------------------------
\* C28: a request with a token that Login signed, that is unexpired and
\* has no row in token_blacklist passes AuthMiddleware with the user_id and
\* role of the token, whatever the users table holds for its subject:
\* deleted, or with another role or status than at the login.
THM_C28 ==
    [][\A r \in Req :
          ( /\ GateStep(r)
            /\ ExtractToken(header'[r]) \in issued
            /\ now < ExtractToken(header'[r]).exp
            /\ ~BlacklistExists(token_blacklist, ExtractToken(header'[r])) )
              => /\ pc'[r] = "handler"
                 /\ locals'[r].userID = ExtractToken(header'[r]).uid
                 /\ locals'[r].userRole = ExtractToken(header'[r]).role]_vars

\* the second account was made admin and then deleted; its token of before
\* is let through as user
WIT_C28 ==
    \E r \in Req :
        /\ pc[r] = "handler"
        /\ Cred(r).uid = 2
        /\ locals[r] = [userID |-> 2, userRole |-> RoleUser]
        /\ users[2].role = RoleAdmin
        /\ users[2].deleted_at # NULL

\* ---------------------------------------------------------------------
\* C29: a step that leaves a row of users with role admin that was not
\* there with that role before is the step of a handler whose requester
\* has role admin; over RegisterUser, CreateUser and UpdateUser.
BecomesAdmin(i) ==
    /\ users'[i].role = RoleAdmin
    /\ i \in 1 .. Len(users) => users[i].role # RoleAdmin

CEX_C29 ==
    [][(\E i \in 1 .. Len(users') : BecomesAdmin(i))
          => \E r \in Req :
                /\ pc[r] = "handler" /\ pc'[r] = "done"
                /\ locals[r].userRole = RoleAdmin]_vars

\* ---------------------------------------------------------------------
\* C30: an update that is answered 400 after its checks of the form
\* leaves the files as they were, with no deletion of the old image under
\* way, and changes no row; checked on UpdateProduct with a price that
\* does not parse or is negative.
CEX_C30 ==
    [][\A r \in Req :
          ( /\ pc[r] = "handler" /\ route[r] = "updateProduct"
            /\ Finishes(r, StatusBadRequest) )
              => /\ files' = files
                 /\ goroutines' = goroutines
                 /\ tables' = tables]_vars

====
